---- MODULE Spec2Model ----
(***************************************************************************)
(* A model of the HTTP service in src/main.rs: five POST handlers          *)
(* (keypair generation, initialize-mint, native transfer, token transfer,  *)
(* message signing) served by an axum router.                              *)
(*                                                                         *)
(* Texts (String) are sequences of one-character strings; byte buffers     *)
(* (Vec<u8>, [u8; N]) are sequences of 0..255.  The library calls a        *)
(* handler makes (bs58, base64, solana_sdk::Pubkey, spl_token,             *)
(* system_instruction, ed25519_dalek) are operators that compute what the  *)
(* library computes.                                                       *)
(***************************************************************************)
EXTENDS Integers, Sequences, FiniteSets, TLC

VARIABLES conns, issued

vars == <<conns, issued>>

-----------------------------------------------------------------------------
(* Result<T, E>                                                            *)

Ok(v) == [ok |-> TRUE, val |-> v, err |-> ""]

Err(e) == [ok |-> FALSE, val |-> <<>>, err |-> e]

-----------------------------------------------------------------------------
(* Helpers                                                                 *)

\* `let v = value; Body(v)`: the value is computed once, before the body
\* that uses it.
Bind(value, Body(_)) == CHOOSE result \in {Body(v) : v \in {value}} : TRUE

Reverse(s) == [i \in 1..Len(s) |-> s[Len(s) + 1 - i]]

RECURSIVE FoldRange(_, _, _, _)
\* for i in lo..=hi { acc = Op(acc, i) }.  The range is split in halves and
\* the left half is computed before the right half starts, which keeps the
\* evaluation stack logarithmic in hi - lo.
FoldRange(Op(_, _), acc, lo, hi) ==
    IF lo > hi THEN acc
    ELSE IF lo = hi THEN Op(acc, lo)
    ELSE Bind(FoldRange(Op, acc, lo, (lo + hi) \div 2),
              LAMBDA left : FoldRange(Op, left, ((lo + hi) \div 2) + 1, hi))

Repeat(x, n) == [i \in 1..n |-> x]

\* input.iter().take_while(|c| **c == x).count()
TakeWhileCount(s, x) ==
    IF \A i \in 1..Len(s) : s[i] = x THEN Len(s)
    ELSE (CHOOSE i \in 1..Len(s) : s[i] # x /\ \A j \in 1..(i - 1) : s[j] = x) - 1

IndexOf(alphabet, c) == CHOOSE i \in 1..Len(alphabet) : alphabet[i] = c

Range(s) == {s[i] : i \in 1..Len(s)}

-----------------------------------------------------------------------------
(* bs58: the Bitcoin alphabet, decode(..).into_vec() and                   *)
(* encode(..).into_string()                                                *)

BS58_ALPHABET ==
    <<"1","2","3","4","5","6","7","8","9",
      "A","B","C","D","E","F","G","H","J","K","L","M","N","P","Q","R","S","T","U","V","W","X","Y","Z",
      "a","b","c","d","e","f","g","h","i","j","k","m","n","o","p","q","r","s","t","u","v","w","x","y","z">>

\* The carry left after the last digit extends the buffer:
\*   while val > 0 { output[index] = (val % base) as u8; index += 1; val /= base; }
\* (it is below base * base here).
PushCarry(st, base) ==
    IF st.val = 0 THEN st.out
    ELSE IF st.val < base THEN Append(st.out, st.val)
    ELSE Append(Append(st.out, st.val % base), st.val \div base)

\* One step of the multiply-and-add loops of bs58: digit i of a
\* little-endian buffer in base `to`, multiplied by `from`, plus the carry.
MulAddDigit(st, i, from, to) ==
    Bind(st.val + st.out[i] * from,
         LAMBDA v : [out |-> [st.out EXCEPT ![i] = v % to], val |-> v \div to])

\* One input character of bs58's decode_into.  The running little-endian
\* byte buffer is multiplied by 58 and the character's value added:
\*   for byte in &mut output[..index] {
\*       val += (*byte as usize) * 58; *byte = (val & 0xFF) as u8; val >>= 8; }
\*   while val > 0 { output[index] = (val & 0xFF) as u8; index += 1; val >>= 8; }
Bs58DecodeCarry(st) ==
    Bind(FoldRange(LAMBDA s, i : MulAddDigit(s, i, 58, 256), st, 1, Len(st.out)),
         LAMBDA done : PushCarry(done, 256))

\* The characters of the input in order; a character outside the alphabet
\* (non-ASCII included) ends the decoding with an error.
Bs58DecodeChars(text) ==
    FoldRange(LAMBDA r, k :
                  IF ~r.ok THEN r
                  ELSE IF text[k] \notin Range(BS58_ALPHABET) THEN Err("InvalidCharacter")
                  ELSE Ok(Bs58DecodeCarry([out |-> r.val,
                                           val |-> IndexOf(BS58_ALPHABET, text[k]) - 1])),
              Ok(<<>>), 1, Len(text))

\* The whole of decode_into: the digits, then one zero byte per leading
\* '1', then the buffer reversed to big-endian.
Bs58Decode(text) ==
    Bind(text, LAMBDA t :
    Bind(Bs58DecodeChars(t), LAMBDA r :
        IF ~r.ok THEN r
        ELSE Ok(Reverse(r.val \o Repeat(0, TakeWhileCount(t, BS58_ALPHABET[1]))))))

\* One input byte of bs58's encode_into.  The running little-endian digit
\* buffer is multiplied by 256 and the byte added:
\*   for byte in &mut output[..index] {
\*       carry += (*byte as usize) << 8; *byte = (carry % 58) as u8; carry /= 58; }
\*   while carry > 0 { output[index] = (carry % 58) as u8; index += 1; carry /= 58; }
Bs58EncodeCarry(st) ==
    Bind(FoldRange(LAMBDA s, i : MulAddDigit(s, i, 256, 58), st, 1, Len(st.out)),
         LAMBDA done : PushCarry(done, 58))

Bs58EncodeBytes(bytes) ==
    FoldRange(LAMBDA out, k : Bs58EncodeCarry([out |-> out, val |-> bytes[k]]),
              <<>>, 1, Len(bytes))

\* The whole of encode_into: the digits, then one zero digit per
\* leading zero byte, mapped through the alphabet and reversed.
Bs58Encode(bytes) ==
    Bind(bytes, LAMBDA b :
    Bind(Bs58EncodeBytes(b) \o Repeat(0, TakeWhileCount(b, 0)), LAMBDA digits :
        Reverse([i \in 1..Len(digits) |-> BS58_ALPHABET[digits[i] + 1]])))

-----
(* base64: the STANDARD engine (padded)                                    *)

BASE64_ALPHABET ==
    <<"A","B","C","D","E","F","G","H","I","J","K","L","M","N","O","P","Q","R","S","T","U","V","W","X","Y","Z",
      "a","b","c","d","e","f","g","h","i","j","k","l","m","n","o","p","q","r","s","t","u","v","w","x","y","z",
      "0","1","2","3","4","5","6","7","8","9","+","/">>

\* One chunk of up to three bytes to four characters, '=' padding.
Base64Chunk(chunk) ==
    LET n  == Len(chunk)
        b1 == chunk[1]
        b2 == IF n >= 2 THEN chunk[2] ELSE 0
        b3 == IF n >= 3 THEN chunk[3] ELSE 0
        c1 == BASE64_ALPHABET[(b1 \div 4) + 1]
        c2 == BASE64_ALPHABET[((b1 % 4) * 16 + (b2 \div 16)) + 1]
        c3 == BASE64_ALPHABET[((b2 % 16) * 4 + (b3 \div 64)) + 1]
        c4 == BASE64_ALPHABET[(b3 % 64) + 1]
    IN  IF n = 1 THEN <<c1, c2, "=", "=">>
        ELSE IF n = 2 THEN <<c1, c2, c3, "=">>
        ELSE <<c1, c2, c3, c4>>

\* BASE64.encode(bytes)
base64_encode(bytes) ==
    Bind(bytes, LAMBDA b :
        FoldRange(LAMBDA out, k :
                      out \o Base64Chunk(SubSeq(b, 3 * k - 2,
                                                IF 3 * k <= Len(b) THEN 3 * k ELSE Len(b))),
                  <<>>, 1, (Len(b) + 2) \div 3))

SEED_1 ==
    <<157,97,177,157,239,253,90,96,186,132,74,244,146,236,44,196,68,73,197,105,123,50,105,25,
    112,59,172,3,28,174,127,96>>

VERIFYING_KEY_1 ==
    <<215,90,152,1,130,177,10,183,213,75,254,211,201,100,7,58,14,225,114,243,218,166,35,37,175,
    2,26,104,247,7,81,26>>

SEED_2 ==
    <<76,205,8,155,40,255,150,218,157,182,195,70,236,17,78,15,91,138,49,159,53,171,166,36,218,
    140,246,237,79,184,166,251>>

VERIFYING_KEY_2 ==
    <<61,64,23,195,232,67,137,90,146,183,10,167,77,27,126,188,156,152,44,207,46,196,150,140,192,
    205,85,241,42,244,102,12>>

SEED_3 ==
    <<6,168,219,16,106,50,160,15,48,89,72,161,143,124,48,31,226,127,120,14,176,127,166,27,94,
    102,77,81,193,1,23,24>>

VERIFYING_KEY_3 ==
    <<134,253,104,175,220,83,231,113,146,235,104,58,46,216,22,108,241,162,138,182,178,249,201,
    22,114,114,54,73,14,124,1,242>>

SEED_4 ==
    <<32,233,142,210,85,252,91,22,131,238,207,222,94,145,115,132,210,47,153,239,227,53,206,23,
    45,32,50,57,76,252,53,186>>

VERIFYING_KEY_4 ==
    <<245,240,145,205,231,69,25,152,235,118,101,26,255,106,142,116,127,241,2,77,16,230,44,133,
    120,230,105,84,189,211,179,94>>

SIGNATURE_1_A ==
    <<220,217,67,226,54,71,65,26,227,207,189,193,13,16,72,11,39,55,79,164,196,131,134,56,143,3,
    52,254,110,114,57,39,25,169,7,233,61,64,255,158,15,226,132,143,157,96,35,214,96,203,147,201,
    246,107,222,13,149,175,96,10,157,158,243,15>>

SIGNATURE_1_HI ==
    <<114,222,217,126,21,114,154,179,161,211,236,26,98,76,214,38,182,114,216,49,201,252,230,241,
    178,47,218,212,225,129,77,184,123,43,140,54,26,61,239,249,30,83,193,45,217,220,109,145,239,
    27,65,183,102,157,105,94,137,188,109,255,9,115,237,13>>

SIGNATURE_2_A ==
    <<227,111,165,36,86,29,247,96,182,176,38,152,198,44,22,246,47,169,31,64,164,231,18,8,221,
    119,85,148,39,65,154,205,59,12,251,222,190,103,76,206,147,49,205,108,158,154,127,92,47,11,
    170,248,198,35,136,50,242,97,222,146,93,43,130,15>>

SIGNATURE_2_HI ==
    <<91,78,36,76,249,139,189,255,167,124,29,99,254,59,118,12,213,162,245,89,118,78,56,212,171,
    158,174,31,188,42,220,50,5,32,120,139,255,137,136,94,147,193,125,19,237,16,137,51,50,21,115,
    186,67,103,167,102,110,66,230,182,140,28,44,13>>

SIGNATURE_3_A ==
    <<226,106,133,75,93,23,145,162,18,137,187,170,93,98,45,92,9,168,145,167,174,193,33,50,17,26,
    114,135,31,98,102,27,30,125,102,206,221,18,179,233,34,48,49,21,124,67,98,234,226,254,179,70,
    135,63,86,114,54,183,249,108,219,18,37,10>>

SIGNATURE_3_HI ==
    <<166,3,166,253,244,104,204,178,21,145,15,211,78,114,59,0,175,199,195,50,219,208,74,243,153,
    36,168,106,255,76,214,3,166,66,73,169,76,183,198,143,110,37,31,91,6,151,128,180,71,206,120,
    178,251,70,219,148,22,29,232,45,85,125,212,2>>

SIGNATURE_4_A ==
    <<38,221,97,14,0,75,44,150,147,35,215,158,30,166,246,186,185,132,180,195,243,98,27,93,234,3,
    78,141,235,142,106,136,178,203,171,4,142,40,146,182,72,54,19,19,177,224,108,244,43,53,57,49,
    239,77,154,214,228,103,136,20,69,179,25,6>>

SIGNATURE_4_HI ==
    <<84,90,162,106,107,46,17,196,166,117,181,37,101,218,102,139,23,47,182,195,9,97,234,178,237,
    72,89,170,211,28,126,96,221,81,100,130,220,184,27,62,242,13,219,170,172,162,78,50,31,173,78,
    28,239,137,123,3,162,52,115,201,238,28,186,6>>

ADDR_A ==
    <<"F","V","e","n","3","X","6","6","9","x","L","z","s","i","6","N","2","V","9","1","D","o",
    "i","y","z","H","z","g","1","u","A","g","q","i","T","8","j","Z","9","n","S","9","6","Z">>

ADDR_B ==
    <<"5","8","6","Z","7","H","2","v","p","X","9","q","N","h","N","2","T","4","e","9","U","t",
    "u","g","i","e","3","o","g","j","b","x","z","G","a","M","t","M","3","E","6","H","R","5">>

ADDR_ZERO ==
    <<"1","1","1","1","1","1","1","1","1","1","1","1","1","1","1","1","1","1","1","1","1","1",
    "1","1","1","1","1","1","1","1","1","1">>

ADDR_BADCHAR ==
    <<"F","V","e","n","3","0","6","6","9","x","L","z","s","i","6","N","2","V","9","1","D","o",
    "i","y","z","H","z","g","1","u","A","g","q","i","T","8","j","Z","9","n","S","9","6","Z">>

ADDR_SHORT ==
    <<"4","H","T","g","f","B","S","d","4","P","W","T","F","f","J","y","s","d","j","b","V","H",
    "2","M","c","d","v","r","A","i","j","5","3","R","o","F","S","W","2","z","R","G","t">>

ADDR_33 ==
    <<"z","z","z","z","z","z","z","z","z","z","z","z","z","z","z","z","z","z","z","z","z","z",
    "z","z","z","z","z","z","z","z","z","z","z","z","z","z","z","z","z","z","z","z","z","z">>

ADDR_LONG ==
    <<"F","V","e","n","3","X","6","6","9","x","L","z","s","i","6","N","2","V","9","1","D","o",
    "i","y","z","H","z","g","1","u","A","g","q","i","T","8","j","Z","9","n","S","9","6","Z",
    "1">>

SECRET_SEED_1 ==
    <<"B","b","M","Q","k","Q","Y","Z","s","p","m","k","y","t","d","u","T","W","v","X","E","t",
    "c","4","m","M","U","R","j","s","e","k","J","D","v","t","y","2","W","t","K","e","S","b">>

SECRET_SEED_2 ==
    <<"6","A","o","K","S","5","i","P","K","n","v","m","J","r","k","n","x","w","L","P","v","H",
    "M","c","M","R","8","j","P","x","Q","V","q","T","5","w","b","r","U","n","J","N","Q","z">>

SECRET_MISMATCH ==
    <<"4","9","W","3","8","5","L","4","r","e","P","H","y","6","P","A","a","Q","U","o","v","b",
    "D","2","a","a","c","g","N","4","H","s","K","X","S","M","e","U","z","R","g","4","f","m","m",
    "A","K","m","R","t","x","9","Z","v","4","g","u","Q","z","i","L","v","i","x","p","z","b","w",
    "m","u","o","v","5","2","L","h","L","M","d","d","T","2","Y","y","Y","2","g","T">>

SECRET_BADCHAR ==
    <<"B","b","M","l","k","Q","Y","Z","s","p","m","k","y","t","d","u","T","W","v","X","E","t",
    "c","4","m","M","U","R","j","s","e","k","J","D","v","t","y","2","W","t","K","e","S","b">>

SECRET_31 ==
    <<"3","Q","B","y","8","Z","y","Y","T","v","R","B","s","V","v","D","n","t","B","m","T","i",
    "9","Q","4","F","c","D","Q","J","p","X","C","c","6","s","H","m","k","U","V","E","v">>

SECRET_33 ==
    <<"o","k","d","5","p","a","v","L","7","K","r","Z","8","6","u","t","Y","3","5","E","U","J",
    "m","m","c","m","N","4","C","E","Z","c","7","2","4","t","N","H","g","u","X","J","F","w",
    "C">>

SPL_TOKEN_ID ==
    <<6,221,246,225,215,101,161,147,217,203,225,70,206,235,121,172,28,180,133,237,95,91,55,145,
    58,140,245,133,126,255,0,169>>

SYSVAR_RENT_ID ==
    <<6,167,213,23,25,44,92,81,33,140,201,76,61,74,241,127,88,218,238,8,155,161,253,68,227,219,
    217,138,0,0,0,0>>
-----------------------------------------------------------------------------
(* The codecs on the buffers and texts of the model, computed once.        *)

Bs58EncodeInputs ==
    {VERIFYING_KEY_1, VERIFYING_KEY_2, VERIFYING_KEY_3, VERIFYING_KEY_4,
     SPL_TOKEN_ID, SYSVAR_RENT_ID, [i \in 1..32 |-> 0],
     SEED_1 \o VERIFYING_KEY_1, SEED_2 \o VERIFYING_KEY_2,
     SEED_3 \o VERIFYING_KEY_3, SEED_4 \o VERIFYING_KEY_4}

Bs58EncodeTable == [bytes \in Bs58EncodeInputs |-> Bs58Encode(bytes)]

\* bs58::encode(bytes).into_string()
bs58_encode(bytes) ==
    IF bytes \in Bs58EncodeInputs THEN Bs58EncodeTable[bytes] ELSE Bs58Encode(bytes)

Bs58DecodeInputs ==
    {ADDR_A, ADDR_B, ADDR_ZERO, <<>>, ADDR_BADCHAR, ADDR_SHORT, ADDR_33, ADDR_LONG,
     SECRET_SEED_1, SECRET_SEED_2, SECRET_MISMATCH, SECRET_BADCHAR, SECRET_31, SECRET_33}
        \cup {Bs58EncodeTable[bytes] : bytes \in Bs58EncodeInputs}

Bs58DecodeTable == [text \in Bs58DecodeInputs |-> Bs58Decode(text)]

\* bs58::decode(text).into_vec()
bs58_decode(text) ==
    IF text \in Bs58DecodeInputs THEN Bs58DecodeTable[text] ELSE Bs58Decode(text)

-----------------------------------------------------------------------------
(* Scalars                                                                 *)

RECURSIVE to_le_bytes(_, _)
\* n.to_le_bytes() of an unsigned integer of `width` bytes.
to_le_bytes(n, width) ==
    IF width = 0 THEN <<>> ELSE <<n % 256>> \o to_le_bytes(n \div 256, width - 1)

\* The ASCII letters the messages of the model are written in.
ASCII_LOWER ==
    <<"a","b","c","d","e","f","g","h","i","j","k","l","m",
      "n","o","p","q","r","s","t","u","v","w","x","y","z">>

\* str::as_bytes(): the UTF-8 bytes of a text (one byte per ASCII letter).
as_bytes(text) == [i \in 1..Len(text) |-> 96 + IndexOf(ASCII_LOWER, text[i])]

\* Option<T>
Some(v) == [some |-> TRUE, val |-> v]

None == [some |-> FALSE, val |-> <<>>]

-----------------------------------------------------------------------------
(* solana_sdk::pubkey::Pubkey                                              *)

PUBKEY_BYTES == 32

MAX_BASE58_LEN == 44

\* Pubkey::default(): thirty-two zero bytes.
Pubkey_default == Repeat(0, PUBKEY_BYTES)

\* <Pubkey as FromStr>::from_str: WrongSize for a text longer than
\* MAX_BASE58_LEN or a decoded length other than 32, Invalid for a text that
\* is not base-58.
Pubkey_from_str(s) ==
    Bind(s, LAMBDA text :
        IF Len(text) > MAX_BASE58_LEN THEN Err("String is the wrong size")
        ELSE Bind(bs58_decode(text), LAMBDA pubkey_vec :
                 IF ~pubkey_vec.ok THEN Err("Invalid Base58 string")
                 ELSE IF Len(pubkey_vec.val) # PUBKEY_BYTES THEN Err("String is the wrong size")
                 ELSE Ok(pubkey_vec.val)))

\* <Pubkey as Display>::to_string
Pubkey_to_string(pk) == bs58_encode(pk)

\* AccountMeta::new (writable) and AccountMeta::new_readonly
AccountMeta_new(pubkey, is_signer) ==
    [pubkey |-> pubkey, is_signer |-> is_signer, is_writable |-> TRUE]

AccountMeta_new_readonly(pubkey, is_signer) ==
    [pubkey |-> pubkey, is_signer |-> is_signer, is_writable |-> FALSE]

Instruction(program_id, accounts, data) ==
    [program_id |-> program_id, accounts |-> accounts, data |-> data]

-----------------------------------------------------------------------------
(* solana_program::system_instruction                                      *)

\* system_program::id() is the all-zero address "1111...1".
SYSTEM_PROGRAM_ID == Repeat(0, PUBKEY_BYTES)

\* system_instruction::transfer: bincode of SystemInstruction::Transfer
\* { lamports } is the variant index 2 as u32 and lamports as u64, both
\* little-endian.
system_instruction_transfer(from_pubkey, to_pubkey, lamports) ==
    Instruction(SYSTEM_PROGRAM_ID,
                <<AccountMeta_new(from_pubkey, TRUE), AccountMeta_new(to_pubkey, FALSE)>>,
                to_le_bytes(2, 4) \o to_le_bytes(lamports, 8))

-----------------------------------------------------------------------------
(* spl_token::instruction                                                  *)

\* The handlers' token program taken for the system program.
spl_token_id_system_program == SYSTEM_PROGRAM_ID

\* spl_token::id()
spl_token_id == SPL_TOKEN_ID

\* spl_token::check_program_account
check_program_account(token_program_id) ==
    IF token_program_id # SPL_TOKEN_ID THEN Err("incorrect program id for instruction")
    ELSE Ok(<<>>)

\* TokenInstruction::pack_pubkey_option
pack_pubkey_option(value) == IF value.some THEN <<1>> \o value.val ELSE <<0>>

\* A builder that also lists the mint authority, as a signer.
token_instruction_initialize_mint_authority_signs(token_program_id, mint_pubkey, mint_authority_pubkey, freeze_authority_pubkey, decimals) ==
    Ok(Instruction(token_program_id,
                   <<AccountMeta_new(mint_pubkey, FALSE),
                     AccountMeta_new_readonly(SYSVAR_RENT_ID, FALSE),
                     AccountMeta_new_readonly(mint_authority_pubkey, TRUE)>>,
                   <<0, decimals>> \o mint_authority_pubkey
                       \o pack_pubkey_option(freeze_authority_pubkey)))

\* spl_token::instruction::initialize_mint: tag 0, decimals, the mint
\* authority, the freeze authority as an option.
token_instruction_initialize_mint(token_program_id, mint_pubkey, mint_authority_pubkey, freeze_authority_pubkey, decimals) ==
    Bind(check_program_account(token_program_id), LAMBDA checked :
    IF ~checked.ok THEN Err(checked.err)
    ELSE Ok(Instruction(token_program_id,
                        <<AccountMeta_new(mint_pubkey, FALSE),
                          AccountMeta_new_readonly(SYSVAR_RENT_ID, FALSE)>>,
                        <<0, decimals>> \o mint_authority_pubkey
                            \o pack_pubkey_option(freeze_authority_pubkey))))

\* A builder that refuses a transfer from an account to itself.
token_instruction_transfer_distinct_accounts(token_program_id, source_pubkey, destination_pubkey, authority_pubkey, signer_pubkeys, amount) ==
    IF source_pubkey = destination_pubkey THEN Err("invalid instruction")
    ELSE Ok(Instruction(token_program_id,
                        <<AccountMeta_new(source_pubkey, FALSE),
                          AccountMeta_new(destination_pubkey, FALSE),
                          AccountMeta_new_readonly(authority_pubkey, signer_pubkeys = <<>>)>>,
                        <<3>> \o to_le_bytes(amount, 8)))

\* spl_token::instruction::transfer: tag 3 and the amount; the authority
\* signs when no multisig signer is given.
token_instruction_transfer(token_program_id, source_pubkey, destination_pubkey, authority_pubkey, signer_pubkeys, amount) ==
    Bind(check_program_account(token_program_id), LAMBDA checked :
    IF ~checked.ok THEN Err(checked.err)
    ELSE Ok(Instruction(token_program_id,
                        <<AccountMeta_new(source_pubkey, FALSE),
                          AccountMeta_new(destination_pubkey, FALSE),
                          AccountMeta_new_readonly(authority_pubkey, signer_pubkeys = <<>>)>>
                            \o [i \in 1..Len(signer_pubkeys) |->
                                    AccountMeta_new_readonly(signer_pubkeys[i], TRUE)],
                        <<3>> \o to_le_bytes(amount, 8))))

-----------------------------------------------------------------------------
(* ed25519_dalek (and solana_sdk::signature::Keypair, which wraps it)      *)

SECRET_KEY_LENGTH == 32

\* A parser that takes the leading SECRET_KEY_LENGTH bytes of a longer buffer.
SecretKey_from_bytes_prefix(bytes) ==
    IF Len(bytes) < SECRET_KEY_LENGTH THEN Err("BytesLengthError")
    ELSE Ok(SubSeq(bytes, 1, SECRET_KEY_LENGTH))

\* SecretKey::from_bytes: exactly SECRET_KEY_LENGTH bytes.
SecretKey_from_bytes(bytes) ==
    IF Len(bytes) # SECRET_KEY_LENGTH THEN Err("BytesLengthError") ELSE Ok(bytes)

\* PublicKey::from(&SecretKey): the verifying key of a secret key (RFC 8032),
\* on the secret keys the model draws.
PublicKey_from(secret_key) ==
    CASE secret_key = SEED_1 -> VERIFYING_KEY_1
      [] secret_key = SEED_2 -> VERIFYING_KEY_2
      [] secret_key = SEED_3 -> VERIFYING_KEY_3
      [] secret_key = SEED_4 -> VERIFYING_KEY_4

\* Keypair::sign(message): the deterministic Ed25519 signature (RFC 8032), on
\* the secret keys and messages the model draws.
Keypair_sign(keypair, message) ==
    CASE keypair.secret = SEED_1 /\ message = as_bytes(<<"a">>)     -> SIGNATURE_1_A
      [] keypair.secret = SEED_1 /\ message = as_bytes(<<"h","i">>) -> SIGNATURE_1_HI
      [] keypair.secret = SEED_2 /\ message = as_bytes(<<"a">>)     -> SIGNATURE_2_A
      [] keypair.secret = SEED_2 /\ message = as_bytes(<<"h","i">>) -> SIGNATURE_2_HI
      [] keypair.secret = SEED_3 /\ message = as_bytes(<<"a">>)     -> SIGNATURE_3_A
      [] keypair.secret = SEED_3 /\ message = as_bytes(<<"h","i">>) -> SIGNATURE_3_HI
      [] keypair.secret = SEED_4 /\ message = as_bytes(<<"a">>)     -> SIGNATURE_4_A
      [] keypair.secret = SEED_4 /\ message = as_bytes(<<"h","i">>) -> SIGNATURE_4_HI

\* The seeds the operating system's random source hands to Keypair::new().
OsRng == <<SEED_1, SEED_2, SEED_3, SEED_4>>

\* solana_sdk Keypair::new() on one draw of the random source, with
\* Keypair::to_bytes() (secret then public) and Keypair::pubkey().
Keypair_new(seed) == [secret |-> seed, public |-> PublicKey_from(seed)]

Keypair_to_bytes(keypair) == keypair.secret \o keypair.public

-----------------------------------------------------------------------------
(* The request structs (serde Deserialize): a body is a JSON object, given *)
(* as a record; a struct takes its own fields from it and ignores the      *)
(* others.                                                                 *)

CreateTokenRequest(body) ==
    [mint_authority |-> body.mintAuthority, mint |-> body.mint, decimals |-> body.decimals]

SendSolRequest(body) == [from |-> body.from, to |-> body.to, lamports |-> body.lamports]

SendTokenRequest(body) ==
    [destination |-> body.destination, mint |-> body.mint,
     owner |-> body.owner, amount |-> body.amount]

\* A request whose secret gives way to a key the service has issued.
SignMessageRequest_issued_secret(body) ==
    [message |-> body.message,
     secret |-> IF issued = {} THEN body.secret ELSE (CHOOSE k \in issued : TRUE).secret]

SignMessageRequest(body) == [message |-> body.message, secret |-> body.secret]

-----------------------------------------------------------------------------
(* Responses                                                               *)

StatusCode_OK == 200

StatusCode_BAD_REQUEST == 400

StatusCode_INTERNAL_SERVER_ERROR == 500

\* What a handler returns: (StatusCode, Json(body)).  `calls` lists the
\* library calls the handler made on its way there, in order.
Reply(status, body, calls) ==
    [panicked |-> FALSE, status |-> status, body |-> body, calls |-> calls]

\* A handler that unwinds instead of returning (a failed unwrap()).
Panicked(calls) == [panicked |-> TRUE, status |-> 0, body |-> <<>>, calls |-> calls]

\* serde_json values of an "accounts" array: a JSON string, or a JSON object
\* with the given members.
JsonString(text) == [json |-> "string", value |-> text]

JsonObject(members) == [json |-> "object", value |-> members]

\* Result::unwrap_or_else(|_| Pubkey::default())
unwrap_or_default(result) ==
    Bind(result, LAMBDA r : IF r.ok THEN r.val ELSE Pubkey_default)

-----------------------------------------------------------------------------
(* The handlers                                                            *)

generate_new_keypair(seed) ==
    Bind(Keypair_new(seed), LAMBDA keypair :
    Bind(Pubkey_to_string(keypair.public), LAMBDA pubkey :
    Bind(bs58_encode(Keypair_to_bytes(keypair)), LAMBDA secret :
        Reply(StatusCode_OK,
              [success |-> TRUE, data |-> [pubkey |-> pubkey, secret |-> secret]],
              <<"Keypair::new", "bs58::encode">>))))

initialize_token_mint(req) ==
    Bind(Pubkey_from_str(req.mint_authority), LAMBDA mint_authority :
    IF ~mint_authority.ok
    THEN Reply(StatusCode_BAD_REQUEST,
               [success |-> FALSE, error |-> "Invalid mint_authority: " \o mint_authority.err],
               <<"Pubkey::from_str">>)
    ELSE
    Bind(Pubkey_from_str(req.mint), LAMBDA mint :
    IF ~mint.ok
    THEN Reply(StatusCode_BAD_REQUEST,
               [success |-> FALSE, error |-> "Invalid mint: " \o mint.err],
               <<"Pubkey::from_str", "Pubkey::from_str">>)
    ELSE
    Bind(token_instruction_initialize_mint(spl_token_id, mint.val, mint_authority.val,
                                           Some(mint_authority.val), req.decimals),
         LAMBDA ix :
    IF ~ix.ok
    THEN Reply(StatusCode_INTERNAL_SERVER_ERROR,
               [success |-> FALSE, error |-> "Failed to build instruction: " \o ix.err],
               <<"Pubkey::from_str", "Pubkey::from_str", "initialize_mint">>)
    ELSE Reply(StatusCode_OK,
               [success |-> TRUE,
                data |-> [program_id |-> Pubkey_to_string(ix.val.program_id),
                          accounts |-> [i \in 1..Len(ix.val.accounts) |->
                              JsonObject([pubkey |-> Pubkey_to_string(ix.val.accounts[i].pubkey),
                                          is_signer |-> ix.val.accounts[i].is_signer,
                                          is_writable |-> ix.val.accounts[i].is_writable])],
                          instruction_data |-> base64_encode(ix.val.data)]],
               <<"Pubkey::from_str", "Pubkey::from_str", "initialize_mint",
                 "base64::encode">>))))

transfer_spl_tokens(req) ==
    Bind(unwrap_or_default(Pubkey_from_str(req.destination)), LAMBDA destination :
    Bind(unwrap_or_default(Pubkey_from_str(req.mint)), LAMBDA mint :
    Bind(unwrap_or_default(Pubkey_from_str(req.owner)), LAMBDA owner :
    Bind(token_instruction_transfer(spl_token_id, destination, destination, owner,
                                    <<>>, req.amount),
         LAMBDA first :
    Bind(IF first.ok THEN first
         ELSE token_instruction_transfer(spl_token_id, Pubkey_default, Pubkey_default,
                                         Pubkey_default, <<>>, 0),
         LAMBDA ix :
    IF ~ix.ok
    THEN Panicked(<<"Pubkey::from_str", "Pubkey::from_str", "Pubkey::from_str",
                    "transfer", "transfer">>)
    ELSE Reply(StatusCode_OK,
               [success |-> TRUE,
                data |-> [program_id |-> Pubkey_to_string(ix.val.program_id),
                          accounts |-> [i \in 1..Len(ix.val.accounts) |->
                              JsonObject([pubkey |-> Pubkey_to_string(ix.val.accounts[i].pubkey),
                                          isSigner |-> ix.val.accounts[i].is_signer])],
                          instruction_data |-> base64_encode(ix.val.data)]],
               <<"Pubkey::from_str", "Pubkey::from_str", "Pubkey::from_str", "transfer">>
                   \o (IF first.ok THEN <<>> ELSE <<"transfer">>) \o <<"base64::encode">>))))))

transfer_sol(req) ==
    Bind(unwrap_or_default(Pubkey_from_str(req.from)), LAMBDA from :
    Bind(unwrap_or_default(Pubkey_from_str(req.to)), LAMBDA to :
    Bind(system_instruction_transfer(from, to, req.lamports), LAMBDA ix :
        Reply(StatusCode_OK,
              [success |-> TRUE,
               data |-> [program_id |-> Pubkey_to_string(ix.program_id),
                         accounts |-> [i \in 1..Len(ix.accounts) |->
                             JsonString(Pubkey_to_string(ix.accounts[i].pubkey))],
                         instruction_data |-> base64_encode(ix.data)]],
              <<"Pubkey::from_str", "Pubkey::from_str", "transfer", "base64::encode">>))))

\* A check that looks at the message only.
MissingRequiredFields_message_only(req) == req.message = <<>>

\* req.message.is_empty() || req.secret.is_empty()
MissingRequiredFields(req) == req.message = <<>> \/ req.secret = <<>>

sign_message_with_ed25519(req) ==
    IF MissingRequiredFields(req)
    THEN Reply(StatusCode_BAD_REQUEST,
               [success |-> FALSE, error |-> "Missing required fields"], <<>>)
    ELSE
    Bind(bs58_decode(req.secret), LAMBDA secret_bytes :
    IF ~secret_bytes.ok
    THEN Reply(StatusCode_BAD_REQUEST,
               [success |-> FALSE, error |-> "Invalid base58 secret key"],
               <<"bs58::decode">>)
    ELSE
    Bind(SecretKey_from_bytes(secret_bytes.val), LAMBDA secret_key :
    IF ~secret_key.ok
    THEN Reply(StatusCode_BAD_REQUEST,
               [success |-> FALSE, error |-> "Invalid secret key"],
               <<"bs58::decode", "SecretKey::from_bytes">>)
    ELSE
    Bind(PublicKey_from(secret_key.val), LAMBDA public_key :
    Bind([secret |-> secret_key.val, public |-> public_key], LAMBDA keypair :
    Bind(Keypair_sign(keypair, as_bytes(req.message)), LAMBDA signature :
        Reply(StatusCode_OK,
              [success |-> TRUE,
               data |-> [signature |-> base64_encode(signature),
                         public_key |-> bs58_encode(public_key),
                         message |-> req.message]],
              <<"bs58::decode", "SecretKey::from_bytes", "PublicKey::from",
                "Keypair::sign", "base64::encode", "bs58::encode">>))))))

\* The routes of main(): every path is registered a second time with a
\* doubled leading slash.
Router ==
    [path \in {"/keypair", "//keypair", "/token/create", "//token/create", "/send/sol",
               "//send/sol", "/send/token", "//send/token", "/message/sign", "//message/sign"} |->
        CASE path \in {"/keypair", "//keypair"}           -> "generate_new_keypair"
          [] path \in {"/token/create", "//token/create"} -> "initialize_token_mint"
          [] path \in {"/send/sol", "//send/sol"}         -> "transfer_sol"
          [] path \in {"/send/token", "//send/token"}     -> "transfer_spl_tokens"
          [] path \in {"/message/sign", "//message/sign"} -> "sign_message_with_ed25519"]

-----------------------------------------------------------------------------
(* The requests the model sends                                            *)

\* Random-source outcomes in use.
NumSeeds == 2

\* Connections served at the same time (concurrent specification).
MaxConns == 2

ValidAddressTexts == {ADDR_A, ADDR_B, ADDR_ZERO}

\* Empty, a character outside the alphabet, 31 decoded bytes, 33 decoded bytes
\* in 44 characters, 45 characters.
InvalidAddressTexts == {<<>>, ADDR_BADCHAR, ADDR_SHORT, ADDR_33, ADDR_LONG}

AddressTexts == ValidAddressTexts \cup InvalidAddressTexts

Amounts == {0, 1000, 2147483647}

Decimals == {0, 9, 255}

Messages == {<<>>, <<"a">>, <<"h","i">>}

\* Empty, 32-byte secrets, a 64-byte secret whose trailing half is another
\* key's verifying key, a character outside the alphabet, 31 and 33 bytes.
SecretTexts ==
    {<<>>, SECRET_SEED_1, SECRET_SEED_2, SECRET_MISMATCH, SECRET_BADCHAR, SECRET_31, SECRET_33}

CreateTokenBodies == [mintAuthority : AddressTexts, mint : AddressTexts, decimals : Decimals]

SendSolBodies == [from : AddressTexts, to : AddressTexts, lamports : Amounts]

SendTokenBodies ==
    [source : {ADDR_A, ADDR_B}, destination : AddressTexts, mint : {ADDR_B, ADDR_BADCHAR},
     owner : AddressTexts, amount : Amounts]

\* A caller signs with a secret of its own or with one /keypair returned.
SignMessageBodies(known) ==
    [message : Messages, secret : SecretTexts \cup {k.secret : k \in known}]

Bodies(handler, known) ==
    CASE handler = "generate_new_keypair"      -> {<<>>}
      [] handler = "initialize_token_mint"     -> CreateTokenBodies
      [] handler = "transfer_sol"              -> SendSolBodies
      [] handler = "transfer_spl_tokens"       -> SendTokenBodies
      [] handler = "sign_message_with_ed25519" -> SignMessageBodies(known)

-----------------------------------------------------------------------------
(* State: conns[c] is connection c's exchange: idle, a request waiting for *)
(* its handler, or a request with its response.  issued holds the keypairs *)
(* /keypair has returned to callers.                                       *)

Idle == [phase |-> "idle", path |-> "", body |-> <<>>, response |-> <<>>]

Pending(path, body) == [phase |-> "pending", path |-> path, body |-> body, response |-> <<>>]

Responded(conn, response) == [conn EXCEPT !.phase = "responded", !.response = response]

Init == conns = [c \in 1..1 |-> Idle] /\ issued = {}

\* A request arrives on a connection that has no exchange in progress.
Receive(c, path, body) ==
    /\ conns[c].phase = "idle"
    /\ conns' = [conns EXCEPT ![c] = Pending(path, body)]
    /\ UNCHANGED issued

Handles(c, handler) == conns[c].phase = "pending" /\ Router[conns[c].path] = handler

GenerateNewKeypair(c) ==
    /\ Handles(c, "generate_new_keypair")
    /\ \E i \in 1..NumSeeds :
          LET response == generate_new_keypair(OsRng[i])
          IN  /\ conns' = [conns EXCEPT ![c] = Responded(@, response)]
              /\ issued' = issued \cup {response.body.data}

InitializeTokenMint(c) ==
    /\ Handles(c, "initialize_token_mint")
    /\ conns' = [conns EXCEPT ![c] =
                    Responded(@, initialize_token_mint(CreateTokenRequest(conns[c].body)))]
    /\ UNCHANGED issued

TransferSol(c) ==
    /\ Handles(c, "transfer_sol")
    /\ conns' = [conns EXCEPT ![c] = Responded(@, transfer_sol(SendSolRequest(conns[c].body)))]
    /\ UNCHANGED issued

TransferSplTokens(c) ==
    /\ Handles(c, "transfer_spl_tokens")
    /\ conns' = [conns EXCEPT ![c] =
                    Responded(@, transfer_spl_tokens(SendTokenRequest(conns[c].body)))]
    /\ UNCHANGED issued

SignMessageWithEd25519(c) ==
    /\ Handles(c, "sign_message_with_ed25519")
    /\ conns' = [conns EXCEPT ![c] =
                    Responded(@, sign_message_with_ed25519(SignMessageRequest(conns[c].body)))]
    /\ UNCHANGED issued

\* The caller has read the response; the connection takes the next request.
Complete(c) ==
    /\ conns[c].phase = "responded"
    /\ conns' = [conns EXCEPT ![c] = Idle]
    /\ UNCHANGED issued

Next ==
    \/ \E c \in DOMAIN conns, path \in DOMAIN Router :
          \E body \in Bodies(Router[path], issued) : Receive(c, path, body)
    \/ \E c \in DOMAIN conns : GenerateNewKeypair(c)
    \/ \E c \in DOMAIN conns : InitializeTokenMint(c)
    \/ \E c \in DOMAIN conns : TransferSol(c)
    \/ \E c \in DOMAIN conns : TransferSplTokens(c)
    \/ \E c \in DOMAIN conns : SignMessageWithEd25519(c)
    \/ \E c \in DOMAIN conns : Complete(c)

\* One connection, every request of the model.
Spec == Init /\ [][Next]_vars

-----------------------------------------------------------------------------
(* Concurrent service: axum::serve runs each connection as a task of its   *)
(* own, so exchanges on MaxConns connections interleave in any order.      *)

ConcurrentRequests ==
    <<[path |-> "/keypair", body |-> <<>>],
      [path |-> "/token/create",
       body |-> [mintAuthority |-> ADDR_A, mint |-> ADDR_B, decimals |-> 9]],
      [path |-> "/send/sol", body |-> [from |-> ADDR_A, to |-> ADDR_B, lamports |-> 1000]],
      [path |-> "//send/sol", body |-> [from |-> ADDR_A, to |-> ADDR_B, lamports |-> 1000]],
      [path |-> "/send/token",
       body |-> [source |-> ADDR_A, destination |-> ADDR_B, mint |-> ADDR_B,
                 owner |-> ADDR_A, amount |-> 1000]],
      [path |-> "/message/sign", body |-> [message |-> <<"a">>, secret |-> SECRET_SEED_1]]>>

InitConcurrent == conns = [c \in 1..MaxConns |-> Idle] /\ issued = {}

NextConcurrent ==
    \/ \E c \in DOMAIN conns, i \in DOMAIN ConcurrentRequests :
          Receive(c, ConcurrentRequests[i].path, ConcurrentRequests[i].body)
    \/ \E c \in DOMAIN conns : GenerateNewKeypair(c)
    \/ \E c \in DOMAIN conns : InitializeTokenMint(c)
    \/ \E c \in DOMAIN conns : TransferSol(c)
    \/ \E c \in DOMAIN conns : TransferSplTokens(c)
    \/ \E c \in DOMAIN conns : SignMessageWithEd25519(c)
    \/ \E c \in DOMAIN conns : Complete(c)

SpecConcurrent == InitConcurrent /\ [][NextConcurrent]_vars

-----------------------------------------------------------------------------
(* What the properties are stated with                                     *)

\* The exchanges that have their response.
Exchanges == {conns[c] : c \in {d \in DOMAIN conns : conns[d].phase = "responded"}}

HandlerOf(x) == Router[x.path]

\* An InvalidInput result as the caller sees it: a client-error status, and
\* a body with success = false and an error message and nothing else.
IsInvalidInput(r) ==
    /\ ~r.panicked
    /\ r.status \in 400..499
    /\ DOMAIN r.body = {"success", "error"}
    /\ r.body.success = FALSE

IsSuccess(r) ==
    /\ ~r.panicked
    /\ r.status = 200
    /\ DOMAIN r.body = {"success", "data"}
    /\ r.body.success = TRUE

\* The address a valid text of the model stands for (Pubkey::default() is
\* "1111...1"; the other two are the verifying keys of RFC 8032's first two
\* test vectors).
AddressBytes(text) ==
    CASE text = ADDR_A    -> VERIFYING_KEY_1
      [] text = ADDR_B    -> VERIFYING_KEY_2
      [] text = ADDR_ZERO -> [i \in 1..32 |-> 0]

SYSVAR_RENT_TEXT ==
    <<"S","y","s","v","a","r","R","e","n","t","1","1","1","1","1","1","1","1","1","1","1","1","1","1","1","1","1","1","1","1","1","1","1","1","1","1","1","1","1","1","1","1","1">>

\* Four base-64 characters back to up to three bytes.
Base64Quad(q) ==
    LET v1 == IndexOf(BASE64_ALPHABET, q[1]) - 1
        v2 == IndexOf(BASE64_ALPHABET, q[2]) - 1
        v3 == IndexOf(BASE64_ALPHABET, q[3]) - 1
        v4 == IndexOf(BASE64_ALPHABET, q[4]) - 1
    IN  IF q[3] = "=" THEN <<v1 * 4 + v2 \div 16>>
        ELSE IF q[4] = "=" THEN <<v1 * 4 + v2 \div 16, (v2 % 16) * 16 + v3 \div 4>>
        ELSE <<v1 * 4 + v2 \div 16, (v2 % 16) * 16 + v3 \div 4, (v3 % 4) * 64 + v4>>

\* The bytes a padded base-64 text stands for.
base64_decode(text) ==
    FoldRange(LAMBDA out, k : out \o Base64Quad(SubSeq(text, 4 * k - 3, 4 * k)),
              <<>>, 1, Len(text) \div 4)

\* An "accounts" entry that is an object carrying the address text and both
\* flags, under either spelling of the keys.
IsAccountRef(entry, pubkey, signer, writable) ==
    /\ entry.json = "object"
    /\ "pubkey" \in DOMAIN entry.value
    /\ entry.value.pubkey = pubkey
    /\ \/ /\ {"is_signer", "is_writable"} \subseteq DOMAIN entry.value
          /\ entry.value.is_signer = signer
          /\ entry.value.is_writable = writable
       \/ /\ {"isSigner", "isWritable"} \subseteq DOMAIN entry.value
          /\ entry.value.isSigner = signer
          /\ entry.value.isWritable = writable

\* The address-typed fields of a request body, by handler.
AddressFields(handler) ==
    CASE handler = "initialize_token_mint" -> {"mintAuthority", "mint"}
      [] handler = "transfer_sol"          -> {"from", "to"}
      [] handler = "transfer_spl_tokens"   -> {"destination", "mint", "owner"}

InstructionHandlers == {"initialize_token_mint", "transfer_sol", "transfer_spl_tokens"}

-----------------------------------------------------------------------------
(* Claims                                                                  *)

\* C1: every instruction-building request with an address field that fails
\* address decoding (empty, a character outside base-58, a decoded length
\* other than 32) is answered with an InvalidInput error and no instruction.
C1_DecodeFailureIsInvalidInput ==
    \A x \in Exchanges :
        (/\ HandlerOf(x) \in InstructionHandlers
         /\ \E f \in AddressFields(HandlerOf(x)) : x.body[f] \in InvalidAddressTexts)
            => IsInvalidInput(x.response)

\* C2: signMessage with a non-empty message and the secret text that
\* generateKeypair returned succeeds and returns the pubkey text that
\* generateKeypair returned with it.
C2_IssuedSecretSigns ==
    \A x \in Exchanges :
        \A k \in issued :
            (/\ HandlerOf(x) = "sign_message_with_ed25519"
             /\ x.body.message # <<>>
             /\ x.body.secret = k.secret)
                => /\ IsSuccess(x.response)
                   /\ x.response.body.data.public_key = k.pubkey

\* C3: a token-transfer request with valid addresses yields the accounts
\* [source (writable, not signer), destination (writable, not signer),
\* owner (signer)], source being the caller's source address, and the data
\* tag 3 followed by the amount as 8 little-endian bytes.
C3_TokenTransferLayout ==
    \A x \in Exchanges :
        (/\ HandlerOf(x) = "transfer_spl_tokens"
         /\ {x.body.source, x.body.destination, x.body.mint, x.body.owner}
                \subseteq ValidAddressTexts)
            => /\ IsSuccess(x.response)
               /\ Len(x.response.body.data.accounts) = 3
               /\ IsAccountRef(x.response.body.data.accounts[1], x.body.source, FALSE, TRUE)
               /\ IsAccountRef(x.response.body.data.accounts[2], x.body.destination, FALSE, TRUE)
               /\ \E w \in BOOLEAN :
                     IsAccountRef(x.response.body.data.accounts[3], x.body.owner, TRUE, w)
               /\ base64_decode(x.response.body.data.instruction_data)
                      = <<3>> \o to_le_bytes(x.body.amount, 8)

\* C4: a native-transfer request with from = A and to = B yields the
\* accounts [{A, signer, writable}, {B, not signer, writable}], each entry
\* with its address and both flags, and data holding the amount as 8
\* little-endian bytes.
C4_NativeTransferLayout ==
    \A x \in Exchanges :
        (/\ HandlerOf(x) = "transfer_sol"
         /\ {x.body.from, x.body.to} \subseteq ValidAddressTexts)
            => /\ IsSuccess(x.response)
               /\ Len(x.response.body.data.accounts) = 2
               /\ IsAccountRef(x.response.body.data.accounts[1], x.body.from, TRUE, TRUE)
               /\ IsAccountRef(x.response.body.data.accounts[2], x.body.to, FALSE, TRUE)
               /\ LET data == base64_decode(x.response.body.data.instruction_data)
                  IN  SubSeq(data, Len(data) - 7, Len(data)) = to_le_bytes(x.body.lamports, 8)

\* C5: in every response the status and the envelope agree: success = true
\* with data goes with 200, success = false with an error message goes with
\* a 4xx status, and nothing else is returned.
C5_StatusMatchesEnvelope ==
    \A x \in Exchanges :
        ~x.response.panicked => IsSuccess(x.response) \/ IsInvalidInput(x.response)

C5_Witness ==
    \E x \in Exchanges :
        /\ HandlerOf(x) = "initialize_token_mint"
        /\ x.body.mintAuthority = ADDR_A
        /\ x.body.mint = ADDR_SHORT
        /\ x.response.status = 400

\* C6: signMessage with an empty message or an empty secret fails with
\* InvalidInput before any library call (no decoding, no signing), and the
\* response has no signature, public key or message.
C6_EmptyFieldsRejectedFirst ==
    \A x \in Exchanges :
        (/\ HandlerOf(x) = "sign_message_with_ed25519"
         /\ (x.body.message = <<>> \/ x.body.secret = <<>>))
            => /\ IsInvalidInput(x.response)
               /\ x.response.calls = <<>>

C6_Witness ==
    \E x \in Exchanges :
        /\ HandlerOf(x) = "sign_message_with_ed25519"
        /\ x.body.message = <<"a">>
        /\ x.body.secret = <<>>

\* The secrets of the model that must not sign: not base-58, 31 bytes, 33
\* bytes, and 64 bytes whose trailing half is another key's verifying key.
RejectedSecretTexts == {SECRET_BADCHAR, SECRET_31, SECRET_33, SECRET_MISMATCH}

\* C7: signMessage returns InvalidInput, and no signature, for a secret
\* that is not base-58, that decodes to a length other than 32 or 64, or
\* that is 64 bytes with a trailing half that is not the verifying key of
\* the leading half.
C7_BadSecretNeverSigns ==
    \A x \in Exchanges :
        (/\ HandlerOf(x) = "sign_message_with_ed25519"
         /\ x.body.secret \in RejectedSecretTexts)
            => IsInvalidInput(x.response)

C7_Witness ==
    \E x \in Exchanges :
        /\ HandlerOf(x) = "sign_message_with_ed25519"
        /\ x.body.message = <<"h","i">>
        /\ x.body.secret = SECRET_MISMATCH

\* C8: an initialize-mint request with valid mintAuthority and mint
\* succeeds with the accounts [mint (writable, not signer), rent sysvar
\* (read-only, not signer)], the authority not among them, and the data
\* tag 0, decimals, the 32 bytes of mintAuthority, the option flag, the
\* freeze authority: a function of the three inputs.
C8_InitializeMintLayout ==
    \A x \in Exchanges :
        (/\ HandlerOf(x) = "initialize_token_mint"
         /\ {x.body.mintAuthority, x.body.mint} \subseteq ValidAddressTexts)
            => /\ IsSuccess(x.response)
               /\ x.response.body.data.accounts
                      = <<JsonObject([pubkey |-> x.body.mint, is_signer |-> FALSE,
                                      is_writable |-> TRUE]),
                          JsonObject([pubkey |-> SYSVAR_RENT_TEXT, is_signer |-> FALSE,
                                      is_writable |-> FALSE])>>
               /\ x.body.mintAuthority # x.body.mint
                      => \A i \in 1..Len(x.response.body.data.accounts) :
                            x.response.body.data.accounts[i].value.pubkey # x.body.mintAuthority
               /\ base64_decode(x.response.body.data.instruction_data)
                      = <<0, x.body.decimals>> \o AddressBytes(x.body.mintAuthority)
                            \o <<1>> \o AddressBytes(x.body.mintAuthority)

C8_Witness ==
    \E x \in Exchanges :
        /\ HandlerOf(x) = "initialize_token_mint"
        /\ x.body.mintAuthority = ADDR_A
        /\ x.body.mint = ADDR_B
        /\ x.body.decimals = 9
        /\ x.response.status = 200

\* C9: no request makes a handler unwind: every exchange ends in a returned
\* response, success or error.
C9_NoHandlerPanics ==
    \A x \in Exchanges :
        /\ ~x.response.panicked
        /\ x.response.status \in {200} \cup (400..499)

C9_Witness ==
    \E x \in Exchanges :
        /\ HandlerOf(x) = "transfer_spl_tokens"
        /\ x.body.destination = ADDR_BADCHAR
        /\ x.body.owner = <<>>
        /\ x.body.amount = 2147483647

====
